---- MODULE Spec2Model ----
(***************************************************************************)
(* A model of src/src/main.py: the license record builder                  *)
(* (LicenseGenerator.generate_license), the per-entity to_dict serializer, *)
(* the compact JSON encoding, FileWriter.write_json and main().            *)
(*                                                                         *)
(* Python values are modelled as follows.                                  *)
(*   - str is a TLA+ string, int an integer.                               *)
(*   - A datetime is [ord, sec, sub]: the proleptic Gregorian ordinal of   *)
(*     the day (date.toordinal()), the second of the day and the           *)
(*     sub-second part in ticks (TicksPerSecond ticks make a second).      *)
(*   - Mutable objects (dataclass instances, lists, the header dict) live  *)
(*     in a heap, a sequence indexed by address, so that two references to *)
(*     one object are told from two equal objects.                         *)
(*   - What to_dict returns (dict / list / str / int) is a tagged tuple,   *)
(*     <<"dict", pairs>>, <<"list", items>>, <<"str", s>>, <<"int", n>>;   *)
(*     a dict keeps its pairs in insertion order, as Python's does.        *)
(***************************************************************************)
EXTENDS Integers, Sequences, FiniteSets, TLC

VARIABLES
    clock,        \* the system clock read by datetime.now()
    ticks,        \* how many times the clock has advanced (bounded)
    heap,         \* library session: the interpreter's objects, by address
    generators,   \* library session: the LicenseGenerator instances made
    frame,        \* library session: the running generate_license() call
    outcomes,     \* library session: what each finished call gave its caller
    future_args,  \* library session: the years passed to future_time, per call
    encoded,      \* library session: the encodings made of each result since its last change
    mutations,    \* library session: the results the caller changed, in order
    dest,         \* the destination's condition (writable, unopenable, full)
    file,         \* the destination's content, or NoFile
    opens,        \* how many times the destination was opened
    run,          \* per process running main(): its position and locals
    last_writer   \* the process whose write reached the file last (0: none)

vars == <<clock, ticks, heap, generators, frame, outcomes, future_args,
          encoded, mutations, dest, file, opens, run, last_writer>>

session_vars == <<heap, generators, frame, outcomes, future_args, encoded,
                  mutations>>

main_vars == <<dest, file, opens, run, last_writer>>

(***************************************************************************)
(* Bounds of the model.                                                    *)
(***************************************************************************)
TicksPerSecond == 2

MaxTicks == 2

MaxCalls == 2

MaxEncodings == 2

MaxMutations == 1

NumRuns == 2

(***************************************************************************)
(* datetime, timedelta and strftime (lines 49, 61, 62).                    *)
(***************************************************************************)
SecondsPerDay == 86400

DaysPerYear == 365

MAXORDINAL == 3652059

DaysBeforeMonth == <<0, 31, 59, 90, 120, 151, 181, 212, 243, 273, 304, 334>>

DaysInMonth == <<31, 28, 31, 30, 31, 30, 31, 31, 30, 31, 30, 31>>

\* datetime's ordinal -> (year, month, day), as CPython's _ord2ymd computes it.
ord2ymd(ordinal) ==
    LET n0   == ordinal - 1
        n400 == n0 \div 146097
        r400 == n0 % 146097
        n100 == r400 \div 36524
        r100 == r400 % 36524
        n4   == r100 \div 1461
        r4   == r100 % 1461
        n1   == r4 \div 365
        n    == r4 % 365
        year == n400 * 400 + 1 + n100 * 100 + n4 * 4 + n1
    IN  IF n1 = 4 \/ n100 = 4
        THEN <<year - 1, 12, 31>>
        ELSE LET leap  == n1 = 3 /\ (n4 # 24 \/ n100 = 3)
                 m0    == (n + 50) \div 32
                 p0    == DaysBeforeMonth[m0] + (IF m0 > 2 /\ leap THEN 1 ELSE 0)
                 month == IF p0 > n THEN m0 - 1 ELSE m0
                 prec  == IF p0 > n
                          THEN p0 - (DaysInMonth[month]
                                     + (IF month = 2 /\ leap THEN 1 ELSE 0))
                          ELSE p0
             IN  <<year, month, n - prec + 1>>

\* A number in decimal, zero-padded on the left to `width` digits (%02d, %04d).
Pad(n, width) ==
    LET s == ToString(n)
    IN  IF Len(s) >= width THEN s ELSE SubSeq("0000", 1, width - Len(s)) \o s

\* datetime.strftime("%Y-%m-%d %H:%M:%S"): the sub-second part is dropped.
strftime(dt) ==
    LET ymd == ord2ymd(dt.ord)
    IN  Pad(ymd[1], 4) \o "-" \o Pad(ymd[2], 2) \o "-" \o Pad(ymd[3], 2) \o " "
        \o Pad(dt.sec \div 3600, 2) \o ":" \o Pad((dt.sec % 3600) \div 60, 2)
        \o ":" \o Pad(dt.sec % 60, 2)

\* datetime + timedelta(days=d): [ok, val]; not ok is OverflowError ("date
\* value out of range"), raised when the day passes datetime.max.
datetime_add_days(dt, d) ==
    IF dt.ord + d > MAXORDINAL
    THEN [ok |-> FALSE, val |-> dt]
    ELSE [ok |-> TRUE, val |-> [dt EXCEPT !.ord = @ + d]]

\* The clock one tick later.
NextInstant(dt) ==
    IF dt.sub + 1 < TicksPerSecond THEN [dt EXCEPT !.sub = @ + 1]
    ELSE IF dt.sec + 1 < SecondsPerDay THEN [dt EXCEPT !.sub = 0, !.sec = @ + 1]
    ELSE [ord |-> dt.ord + 1, sec |-> 0, sub |-> 0]

(***************************************************************************)
(* TimeProvider (lines 10-62).  A provider is [kind, now, future]:         *)
(*   "default"          DefaultTimeProvider, reading the system clock;     *)
(*   "fixed"            a test double answering `now` and `future`;        *)
(*   "raising_current"  a double whose current_time raises;                *)
(*   "raising_future"   a double whose future_time raises.                 *)
(* A call gives [ok, val]; not ok is an exception raised to the caller.    *)
(***************************************************************************)
DefaultTimeProvider == [kind |-> "default", now |-> "", future |-> ""]

FixedTimeProvider(s, e) == [kind |-> "fixed", now |-> s, future |-> e]

RaisingTimeProvider(k) == [kind |-> k, now |-> "", future |-> ""]

Raise == [ok |-> FALSE, val |-> ""]

Return(v) == [ok |-> TRUE, val |-> v]

current_time(tp, now) ==
    CASE tp.kind = "default"         -> Return(strftime(now))
      [] tp.kind = "fixed"           -> Return(tp.now)
      [] tp.kind = "raising_current" -> Raise
      [] tp.kind = "raising_future"  -> Return("2024-01-01 00:00:00")

future_time(tp, now, years) ==
    CASE tp.kind = "default" ->
            LET future == datetime_add_days(now, DaysPerYear * years)
            IN  IF future.ok THEN Return(strftime(future.val)) ELSE Raise
      [] tp.kind = "fixed"           -> Return(tp.future)
      [] tp.kind = "raising_current" -> Return("2034-01-01 00:00:00")
      [] tp.kind = "raising_future"  -> Raise

(***************************************************************************)
(* The heap and the dataclasses (lines 65-176).                            *)
(***************************************************************************)
Alloc(h, obj) == [heap |-> Append(h, obj), addr |-> Len(h) + 1]

\* Mutation: one list shared by every instance (a mutable default).
shared_default_list(h) ==
    IF \E a \in 1..Len(h) : h[a].kind = "list"
    THEN [heap |-> h, addr |-> CHOOSE a \in 1..Len(h) : h[a].kind = "list"]
    ELSE Alloc(h, [kind |-> "list", items |-> <<>>])

\* field(default_factory=list): a new empty list for every instance.
default_factory_list(h) == Alloc(h, [kind |-> "list", items |-> <<>>])

list_append(h, addr, x) == [h EXCEPT ![addr].items = Append(@, x)]

AddonPlugin(id, code, owner, start_date, end_date) ==
    [id |-> id, code |-> code, owner |-> owner,
     start_date |-> start_date, end_date |-> end_date]

\* LicenseId(start_date=..., end_date=..., issued_on=...), the rest defaulted.
LicenseId(h, start_date, end_date, issued_on) ==
    LET a == default_factory_list(h)
        f == default_factory_list(a.heap)
    IN  Alloc(f.heap,
              [kind |-> "LicenseId", id |-> "48-2437-ACBD-29",
               license_type |-> "named", product |-> "IDA",
               product_id |-> "IDAPRO", edition_id |-> "ida-pro", seats |-> 1,
               start_date |-> start_date, end_date |-> end_date,
               issued_on |-> issued_on, owner |-> "0x0060",
               add_ons |-> a.addr, features |-> f.addr])

\* LicensePayload(), every field defaulted.
LicensePayload(h) ==
    LET l == default_factory_list(h)
    IN  Alloc(l.heap, [kind |-> "LicensePayload", name |-> "0x0060",
                       email |-> "ren@0x0060.dev", licenses |-> l.addr])

SIGNATURE ==
    "3238353E900849B6547801BBF8AF31E7822CB4B74A6F54DE03F5E9DFF96AC5DA981B50A62EAAF021F2052CC44498107B36C2D3B34C86B7B48084313189274A1D5D1F45C1F512820C508EA22ABA43EC584E6FEFF6BA9969DD428268F40859AFFE8A2E5BB66CA9C71E78FCAC14E3168D26D11952A71C0F330251D9D74FFC67BD24"

\* License(payload=payload): the header is a new dict {"version": 1}.
License(h, payload) ==
    LET d == Alloc(h, [kind |-> "dict", entries |-> << <<"version", <<"int", 1>> >> >>])
    IN  Alloc(d.heap, [kind |-> "License", header |-> d.addr,
                       payload |-> payload, signature |-> SIGNATURE])

(***************************************************************************)
(* to_dict (lines 76-89, 110-130, 142-153, 165-176).                       *)
(***************************************************************************)
JStr(s) == <<"str", s>>

JInt(n) == <<"int", n>>

JList(items) == <<"list", items>>

JDict(pairs) == <<"dict", pairs>>

AddonPlugin_to_dict(self) ==
    JDict(<< <<"id", JStr(self.id)>>,
             <<"code", JStr(self.code)>>,
             <<"owner", JStr(self.owner)>>,
             <<"start_date", JStr(self.start_date)>>,
             <<"end_date", JStr(self.end_date)>> >>)

RECURSIVE AddonDicts(_, _)

\* [addon.to_dict() for addon in self.add_ons], from the k-th on.
AddonDicts(items, k) ==
    IF k > Len(items) THEN <<>>
    ELSE <<AddonPlugin_to_dict(items[k])>> \o AddonDicts(items, k + 1)

LicenseId_to_dict(h, self) ==
    JDict(<< <<"id", JStr(h[self].id)>>,
             <<"license_type", JStr(h[self].license_type)>>,
             <<"product", JStr(h[self].product)>>,
             <<"product_id", JStr(h[self].product_id)>>,
             <<"edition_id", JStr(h[self].edition_id)>>,
             <<"seats", JInt(h[self].seats)>>,
             <<"start_date", JStr(h[self].start_date)>>,
             <<"end_date", JStr(h[self].end_date)>>,
             <<"issued_on", JStr(h[self].issued_on)>>,
             <<"owner", JStr(h[self].owner)>>,
             <<"add_ons",
               JList(AddonDicts(h[h[self].add_ons].items, 1))>>,
             <<"features", JList(h[h[self].features].items)>> >>)

RECURSIVE LicenseIdDicts(_, _, _)

\* [license_id.to_dict() for license_id in self.licenses], from the k-th on.
LicenseIdDicts(h, items, k) ==
    IF k > Len(items) THEN <<>>
    ELSE <<LicenseId_to_dict(h, items[k])>> \o LicenseIdDicts(h, items, k + 1)

\* Mutation: the payload's keys in alphabetical order.
LicensePayload_to_dict_sorted(h, self) ==
    JDict(<< <<"email", JStr(h[self].email)>>,
             <<"licenses",
               JList(LicenseIdDicts(h, h[h[self].licenses].items, 1))>>,
             <<"name", JStr(h[self].name)>> >>)

LicensePayload_to_dict(h, self) ==
    JDict(<< <<"name", JStr(h[self].name)>>,
             <<"email", JStr(h[self].email)>>,
             <<"licenses",
               JList(LicenseIdDicts(h, h[h[self].licenses].items, 1))>> >>)

License_to_dict(h, self) ==
    JDict(<< <<"header", JDict(h[h[self].header].entries)>>,
             <<"payload", LicensePayload_to_dict(h, h[self].payload)>>,
             <<"signature", JStr(h[self].signature)>> >>)

(***************************************************************************)
(* json.dump(data, file, separators=(',', ':')) (line 250).  The strings   *)
(* of this program hold no character that JSON escapes, so a string is     *)
(* encoded as itself between quotes.                                       *)
(***************************************************************************)
RECURSIVE json_encode(_), json_items(_, _), json_members(_, _)

json_encode(v) ==
    CASE v[1] = "str"  -> "\"" \o v[2] \o "\""
      [] v[1] = "int"  -> ToString(v[2])
      [] v[1] = "list" -> "[" \o json_items(v[2], 1) \o "]"
      [] v[1] = "dict" -> "{" \o json_members(v[2], 1) \o "}"

json_items(s, k) ==
    IF k > Len(s) THEN ""
    ELSE (IF k > 1 THEN "," ELSE "") \o json_encode(s[k]) \o json_items(s, k + 1)

json_members(s, k) ==
    IF k > Len(s) THEN ""
    ELSE (IF k > 1 THEN "," ELSE "") \o "\"" \o s[k][1] \o "\"" \o ":"
         \o json_encode(s[k][2]) \o json_members(s, k + 1)

(***************************************************************************)
(* LicenseGenerator (lines 179-229).                                       *)
(***************************************************************************)
None == [kind |-> "None", now |-> "", future |-> ""]

\* __init__: self.time_provider = time_provider or DefaultTimeProvider()
LicenseGenerator(time_provider) ==
    [time_provider |-> IF time_provider = None THEN DefaultTimeProvider
                       ELSE time_provider]

ValidityYears == 10

addon_plugins ==
    <<"HEXX86", "HEXX64", "HEXARM", "HEXARM64", "HEXMIPS", "HEXMIPS64",
      "HEXPPC", "HEXPPC64", "HEXRV64", "HEXARC", "HEXARC64">>

\* Mutation: the index counted from 1.
AddonId_from_one(i) == "48-1337-DEAD-" \o ToString(i + 1)

\* f"48-1337-DEAD-{i}"
AddonId(i) == "48-1337-DEAD-" \o ToString(i)

\* Mutation: the identification issued at its end date.
NewLicenseId_issued_at_end(h, start_date, end_date) ==
    LicenseId(h, start_date, end_date, end_date)

\* Lines 202-206: the identification, issued at its start date.
NewLicenseId(h, start_date, end_date) ==
    LicenseId(h, start_date, end_date, start_date)

\* Mutation: the add-on owned by the identification's owner, not its id.
NewAddon_owner_field(h, license_id, i, start_date, end_date) ==
    AddonPlugin(AddonId(i), addon_plugins[i + 1], h[license_id].owner,
                start_date, end_date)

\* Lines 215-221: the add-on built by iteration i (from 0) of the loop.
NewAddon(h, license_id, i, start_date, end_date) ==
    AddonPlugin(AddonId(i), addon_plugins[i + 1], h[license_id].id,
                start_date, end_date)

\* Lines 215-222: one iteration of the loop.
AppendAddon(h, license_id, i, start_date, end_date) ==
    list_append(h, h[license_id].add_ons,
                NewAddon(h, license_id, i, start_date, end_date))

\* Line 225: payload.licenses.append(license_id)
AppendLicense(h, payload, license_id) ==
    list_append(h, h[payload].licenses, license_id)

RECURSIVE AppendAddons(_, _, _, _, _)

\* Lines 214-222: the loop from iteration i on.
AppendAddons(h, license_id, i, start_date, end_date) ==
    IF i >= Len(addon_plugins) THEN h
    ELSE AppendAddons(AppendAddon(h, license_id, i, start_date, end_date),
                      license_id, i + 1, start_date, end_date)

\* Lines 202-229: the record built from the two dates; [heap, addr].
BuildLicense(h, start_date, end_date) ==
    LET l  == NewLicenseId(h, start_date, end_date)
        h1 == AppendAddons(l.heap, l.addr, 0, start_date, end_date)
        p  == LicensePayload(h1)
        h2 == AppendLicense(p.heap, p.addr, l.addr)
    IN  License(h2, p.addr)

\* Lines 192-229 as one call, the clock read at t1 and then at t2:
\* [ok, heap, license, asked], asked being whether future_time was called.
generate_license(h, tp, t1, t2) ==
    LET s == current_time(tp, t1)
        e == future_time(tp, t2, ValidityYears)
    IN  IF ~s.ok
        THEN [ok |-> FALSE, heap |-> h, license |-> 0, asked |-> FALSE]
        ELSE IF ~e.ok
        THEN [ok |-> FALSE, heap |-> h, license |-> 0, asked |-> TRUE]
        ELSE LET b == BuildLicense(h, s.val, e.val)
             IN  [ok |-> TRUE, heap |-> b.heap, license |-> b.addr,
                  asked |-> TRUE]

NoFrame ==
    [pc |-> "idle", gen |-> 0, start_date |-> "", end_date |-> "",
     license_id |-> 0, i |-> 0, payload |-> 0, license |-> 0]

\* What a finished call gave its caller: a License, or an exception.
Returned(g, license) == [ok |-> TRUE, gen |-> g, license |-> license]

Raised(g) == [ok |-> FALSE, gen |-> g, license |-> 0]

(***************************************************************************)
(* The library session: one interpreter in which a caller makes            *)
(* generators, calls generate_license(), serializes the results and may    *)
(* change them.  generate_license() runs one statement at a time.          *)
(***************************************************************************)
SessionIdle == frame.pc = "idle"

\* The clock advances.  The program sees the clock only in the
\* datetime.now() of DefaultTimeProvider, so an advance is taken only when
\* a call of that provider is about to be made.
Tick ==
    /\ ticks < MaxTicks
    /\ \/ /\ frame.pc \in {"L199", "L200"}
          /\ generators[frame.gen].time_provider.kind = "default"
       \/ \E p \in DOMAIN run : run[p].pc \in {"L199", "L200"}
    /\ clock' = NextInstant(clock)
    /\ ticks' = ticks + 1
    /\ UNCHANGED <<session_vars, main_vars>>

Providers ==
    {None, DefaultTimeProvider,
     FixedTimeProvider("2024-01-01 00:00:00", "2034-01-01 00:00:00"),
     FixedTimeProvider("1999-12-31 23:59:59", "2009-12-28 23:59:59"),
     RaisingTimeProvider("raising_current"),
     RaisingTimeProvider("raising_future")}

\* generator = LicenseGenerator(tp)
NewGenerator(tp) ==
    /\ SessionIdle
    /\ Len(generators) < MaxCalls
    /\ Len(generators) <= Len(outcomes)
    /\ generators' = Append(generators, LicenseGenerator(tp))
    /\ UNCHANGED <<clock, ticks, heap, frame, outcomes, future_args, encoded,
                   mutations, main_vars>>

\* generator.generate_license() is called.
Call(g) ==
    /\ SessionIdle
    /\ Len(outcomes) < MaxCalls
    /\ frame' = [NoFrame EXCEPT !.pc = "L199", !.gen = g]
    /\ UNCHANGED <<clock, ticks, heap, generators, outcomes, future_args,
                   encoded, mutations, main_vars>>

\* The call ends: its caller gets `outcome`.
Finish(outcome) ==
    /\ frame' = NoFrame
    /\ outcomes' = Append(outcomes, outcome)
    /\ encoded' = Append(encoded, <<>>)

\* Line 199: start_date = self.time_provider.current_time()
GenCurrentTime ==
    /\ frame.pc = "L199"
    /\ LET r == current_time(generators[frame.gen].time_provider, clock)
       IN  IF r.ok
           THEN /\ frame' = [frame EXCEPT !.pc = "L200", !.start_date = r.val]
                /\ UNCHANGED <<outcomes, encoded>>
           ELSE Finish(Raised(frame.gen))
    /\ UNCHANGED <<clock, ticks, heap, generators, future_args, mutations,
                   main_vars>>

\* Line 200: end_date = self.time_provider.future_time(10)
GenFutureTime ==
    /\ frame.pc = "L200"
    /\ future_args' = Append(future_args,
                             [call |-> Len(outcomes) + 1, years |-> ValidityYears])
    /\ LET r == future_time(generators[frame.gen].time_provider, clock,
                            ValidityYears)
       IN  IF r.ok
           THEN /\ frame' = [frame EXCEPT !.pc = "L202", !.end_date = r.val]
                /\ UNCHANGED <<outcomes, encoded>>
           ELSE Finish(Raised(frame.gen))
    /\ UNCHANGED <<clock, ticks, heap, generators, mutations, main_vars>>

\* Lines 202-206: license_id = LicenseId(...)
GenLicenseId ==
    /\ frame.pc = "L202"
    /\ LET n == NewLicenseId(heap, frame.start_date, frame.end_date)
       IN  /\ heap' = n.heap
           /\ frame' = [frame EXCEPT !.pc = "L214", !.license_id = n.addr,
                                     !.i = 0]
    /\ UNCHANGED <<clock, ticks, generators, outcomes, future_args, encoded,
                   mutations, main_vars>>

\* Lines 214-222: one iteration of the loop over addon_plugins, or its end.
GenAddon ==
    /\ frame.pc = "L214"
    /\ IF frame.i < Len(addon_plugins)
       THEN /\ heap' = AppendAddon(heap, frame.license_id, frame.i,
                                   frame.start_date, frame.end_date)
            /\ frame' = [frame EXCEPT !.i = @ + 1]
       ELSE /\ frame' = [frame EXCEPT !.pc = "L224"]
            /\ UNCHANGED heap
    /\ UNCHANGED <<clock, ticks, generators, outcomes, future_args, encoded,
                   mutations, main_vars>>

\* Line 224: payload = LicensePayload()
GenPayload ==
    /\ frame.pc = "L224"
    /\ LET n == LicensePayload(heap)
       IN  /\ heap' = n.heap
           /\ frame' = [frame EXCEPT !.pc = "L225", !.payload = n.addr]
    /\ UNCHANGED <<clock, ticks, generators, outcomes, future_args, encoded,
                   mutations, main_vars>>

\* Line 225: payload.licenses.append(license_id)
GenAppendLicense ==
    /\ frame.pc = "L225"
    /\ heap' = AppendLicense(heap, frame.payload, frame.license_id)
    /\ frame' = [frame EXCEPT !.pc = "L227"]
    /\ UNCHANGED <<clock, ticks, generators, outcomes, future_args, encoded,
                   mutations, main_vars>>

\* Line 227: license = License(payload=payload)
GenLicense ==
    /\ frame.pc = "L227"
    /\ LET n == License(heap, frame.payload)
       IN  /\ heap' = n.heap
           /\ frame' = [frame EXCEPT !.pc = "L229", !.license = n.addr]
    /\ UNCHANGED <<clock, ticks, generators, outcomes, future_args, encoded,
                   mutations, main_vars>>

\* Line 229: return license
GenReturn ==
    /\ frame.pc = "L229"
    /\ Finish(Returned(frame.gen, frame.license))
    /\ UNCHANGED <<clock, ticks, heap, generators, future_args, mutations,
                   main_vars>>

\* The results the caller holds.
Results == {r \in 1..Len(outcomes) : outcomes[r].ok}

\* Mutation: a to_dict that takes the add-ons out of the record as it
\* converts them (while self.add_ons: ... self.add_ons.pop(0).to_dict()).
Serialize_consuming(r) ==
    /\ SessionIdle
    /\ Len(encoded[r]) < MaxEncodings
    /\ encoded' = [encoded EXCEPT ![r] =
          Append(@, json_encode(License_to_dict(heap, outcomes[r].license)))]
    /\ heap' = [heap EXCEPT
          ![heap[heap[heap[heap[outcomes[r].license].payload].licenses].items[1]].add_ons].items = <<>>]
    /\ UNCHANGED <<clock, ticks, generators, frame, outcomes, future_args,
                   mutations, main_vars>>

\* The caller serializes result r: json.dumps(license.to_dict(),
\* separators=(',', ':')).  encoded[r] keeps the encodings made of r since
\* the caller last changed r.  to_dict assigns to no field of any object.
Serialize(r) ==
    /\ SessionIdle
    /\ Len(encoded[r]) < MaxEncodings
    /\ encoded' = [encoded EXCEPT ![r] =
          Append(@, json_encode(License_to_dict(heap, outcomes[r].license)))]
    /\ UNCHANGED <<clock, ticks, heap, generators, frame, outcomes,
                   future_args, mutations, main_vars>>

\* The objects of result r a caller can reach and change.
header_of(h, r) == h[outcomes[r].license].header

payload_of(h, r) == h[outcomes[r].license].payload

licenses_of(h, r) == h[payload_of(h, r)].licenses

add_ons_of(h, r) == h[h[licenses_of(h, r)].items[1]].add_ons

features_of(h, r) == h[h[licenses_of(h, r)].items[1]].features

\* The caller changes every mutable object of result r in place:
\*     license.header["version"] = 2
\*     license.payload.name = "changed"
\*     license.payload.licenses.append(license.payload.licenses[0])
\*     license.payload.licenses[0].add_ons.pop()
\*     license.payload.licenses[0].features.append("extra")
Mutated(h, r) ==
    LET h1 == [h EXCEPT ![header_of(h, r)].entries = << <<"version", JInt(2)>> >>]
        h2 == [h1 EXCEPT ![payload_of(h, r)].name = "changed"]
        h3 == list_append(h2, licenses_of(h, r), h[licenses_of(h, r)].items[1])
        h4 == [h3 EXCEPT ![add_ons_of(h, r)].items = SubSeq(@, 1, Len(@) - 1)]
    IN  list_append(h4, features_of(h, r), JStr("extra"))

Mutate(r) ==
    /\ SessionIdle
    /\ Len(mutations) < MaxMutations
    /\ heap' = Mutated(heap, r)
    /\ mutations' = Append(mutations, r)
    /\ encoded' = [encoded EXCEPT ![r] = <<>>]
    /\ UNCHANGED <<clock, ticks, generators, frame, outcomes, future_args,
                   main_vars>>

\* The instants the session may start at: the last tick of a leap day
\* (2024-02-29 23:59:59), and the start of a second (2026-11-05 06:01:35).
Instants ==
    {[ord |-> 738945, sec |-> 86399, sub |-> TicksPerSecond - 1],
     [ord |-> 739925, sec |-> 21695, sub |-> 0]}

NoFile == [exists |-> FALSE, content |-> ""]

SessionInit ==
    /\ clock \in Instants
    /\ ticks = 0
    /\ heap = <<>>
    /\ generators = <<>>
    /\ frame = NoFrame
    /\ outcomes = <<>>
    /\ future_args = <<>>
    /\ encoded = <<>>
    /\ mutations = <<>>
    /\ dest = "writable"
    /\ file = NoFile
    /\ opens = 0
    /\ run = <<>>
    /\ last_writer = 0

SessionNext ==
    \/ Tick
    \/ \E tp \in Providers : NewGenerator(tp)
    \/ \E g \in 1..Len(generators) : Call(g)
    \/ GenCurrentTime
    \/ GenFutureTime
    \/ GenLicenseId
    \/ GenAddon
    \/ GenPayload
    \/ GenAppendLicense
    \/ GenLicense
    \/ GenReturn

Spec == SessionInit /\ [][SessionNext]_vars

(***************************************************************************)
(* The same session with every generate_license() call taken as one step,  *)
(* and the caller serializing and changing the results.                    *)
(***************************************************************************)
Generate(g) ==
    /\ SessionIdle
    /\ Len(outcomes) < MaxCalls
    /\ LET r == generate_license(heap, generators[g].time_provider, clock, clock)
       IN  /\ heap' = r.heap
           /\ outcomes' = Append(outcomes,
                                 IF r.ok THEN Returned(g, r.license) ELSE Raised(g))
           /\ future_args' =
                 IF r.asked
                 THEN Append(future_args,
                             [call |-> Len(outcomes) + 1, years |-> ValidityYears])
                 ELSE future_args
    /\ encoded' = Append(encoded, <<>>)
    /\ UNCHANGED <<clock, ticks, generators, frame, mutations, main_vars>>

\* LicenseGenerator() and LicenseGenerator(DefaultTimeProvider()).
SerialProviders == {None, DefaultTimeProvider}

SerialNext ==
    \/ \E tp \in SerialProviders : NewGenerator(tp)
    \/ \E g \in 1..Len(generators) : Generate(g)
    \/ \E r \in Results : Serialize(r)
    \/ \E r \in Results : Mutate(r)

SpecSerial == SessionInit /\ [][SerialNext]_vars

(***************************************************************************)
(* FileWriter.write_json and main() (lines 232-275), run by NumRuns        *)
(* processes against one destination.  Each process has its own            *)
(* interpreter; the processes share the system clock and the file.         *)
(*                                                                         *)
(* open(filename, 'w') creates or truncates the file and gives a buffered  *)
(* text stream at offset 0.  json.dump writes the encoding to the stream   *)
(* piece by piece; the stream hands its buffer to the file in one write    *)
(* when the buffer reaches DEFAULT_BUFFER_SIZE characters and when the     *)
(* stream is closed.  The pieces taken here are the top-level members.     *)
(***************************************************************************)
Procs == 1..NumRuns

FILENAME == "idapro.hexlic"

DEFAULT_BUFFER_SIZE == 8192

\* The destination: writable; in a directory that refuses the open
\* (PermissionError); or on a full device, where the open succeeds and the
\* write fails (OSError, ENOSPC).
Destinations == {"writable", "no_permission", "disk_full"}

\* Mutation: a handler for PermissionError alone.
except_PermissionError(e) == e = "PermissionError"

\* `except IOError`: IOError is OSError, which PermissionError subclasses.
except_IOError(e) == e \in {"OSError", "PermissionError"}

\* Mutation: an unbuffered stream, every piece written as it comes.
unbuffered(buffer) == TRUE

\* The stream's buffer is handed to the file once it holds this much.
needs_flush(buffer) == Len(buffer) >= DEFAULT_BUFFER_SIZE

\* The k-th piece json.dump writes of a dict: a member, with the brace or
\* comma before it and the closing brace after the last.
json_chunk(data, k) ==
    (IF k = 1 THEN "{" ELSE ",") \o "\"" \o data[2][k][1] \o "\"" \o ":"
    \o json_encode(data[2][k][2]) \o (IF k = Len(data[2]) THEN "}" ELSE "")

RECURSIVE Zeros(_)

\* n NUL characters, written here as "^".
Zeros(n) ==
    IF n <= 0 THEN ""
    ELSE Zeros(n \div 2) \o Zeros(n \div 2) \o (IF n % 2 = 1 THEN "^" ELSE "")

\* The file's content after `text` is written at offset `pos`: a write past
\* the end leaves a hole of NULs, a write inside replaces what was there.
pwrite(content, pos, text) ==
    LET padded == content \o Zeros(pos - Len(content))
    IN  SubSeq(padded, 1, pos) \o text
        \o SubSeq(padded, pos + Len(text) + 1, Len(padded))

InitRun ==
    [pc |-> "L199", start_date |-> "", end_date |-> "", data |-> <<>>,
     chunk |-> 0, buffer |-> "", pos |-> 0, open_seq |-> 0,
     success |-> FALSE, raised |-> "", stdout |-> <<>>, stderr |-> <<>>,
     exit |-> -1]

\* Mutation: main() swallows the exception and writes an empty record.
swallow(r, e) ==
    [r EXCEPT !.pc = "L249",
              !.data = <<"dict", << <<"error", <<"str", e>> >> >> >>]

\* An exception no handler of main() or write_json catches: the process
\* ends with a traceback, main() returns nothing.
propagate(r, e) == [r EXCEPT !.pc = "raised", !.raised = e]

\* Lines 269-275: write_json has returned `success` to main(), which
\* prints the success message and returns 0, or returns 1.
main_return(r, success) ==
    IF success
    THEN [r EXCEPT !.pc = "done", !.success = TRUE, !.exit = 0,
                   !.stdout = Append(@, "License file generated: " \o FILENAME
                                        \o " :D")]
    ELSE [r EXCEPT !.pc = "done", !.success = FALSE, !.exit = 1]

\* Lines 252-254: write_json's handler for exception e raised in its try
\* block: it reports the failure and returns False, or e propagates.
write_json_except(r, e) ==
    IF except_IOError(e)
    THEN main_return([r EXCEPT !.stderr =
                          Append(@, "Failed to open file :( -> " \o FILENAME
                                    \o "\n" \o e)],
                     FALSE)
    ELSE propagate(r, e)

\* Lines 264-266, 199: generator = LicenseGenerator(); generate_license()
\* reads the start date.
MainCurrentTime(p) ==
    /\ run[p].pc = "L199"
    /\ LET r == current_time(LicenseGenerator(None).time_provider, clock)
       IN  run' = [run EXCEPT ![p] =
                     IF r.ok THEN [@ EXCEPT !.pc = "L200", !.start_date = r.val]
                     ELSE propagate(@, "Exception")]
    /\ UNCHANGED <<clock, ticks, session_vars, dest, file, opens, last_writer>>

\* Lines 200-229 and 269: generate_license() reads the end date, builds
\* and returns the License, and main() takes license.to_dict() as
\* write_json's data; or future_time raises, and so does main().
MainFutureTime(p) ==
    /\ run[p].pc = "L200"
    /\ \E r \in {future_time(LicenseGenerator(None).time_provider, clock,
                               ValidityYears)} :
       LET b == BuildLicense(<<>>, run[p].start_date, r.val)
       IN  run' = [run EXCEPT ![p] =
                     IF r.ok
                     THEN [@ EXCEPT !.pc = "L249", !.end_date = r.val,
                                    !.data = License_to_dict(b.heap, b.addr)]
                     ELSE propagate(@, "OverflowError")]
    /\ UNCHANGED <<clock, ticks, session_vars, dest, file, opens, last_writer>>

\* Line 249: open(filename, 'w', encoding='utf-8'); when it raises, lines
\* 252-254 and 269-275.
Open(p) ==
    /\ run[p].pc = "L249"
    /\ IF dest = "no_permission"
       THEN /\ run' = [run EXCEPT ![p] = write_json_except(@, "PermissionError")]
            /\ UNCHANGED <<file, opens>>
       ELSE /\ file' = [exists |-> TRUE, content |-> ""]
            /\ opens' = opens + 1
            /\ run' = [run EXCEPT ![p].pc = "L250", ![p].open_seq = opens + 1,
                                  ![p].pos = 0, ![p].buffer = "",
                                  ![p].chunk = 1]
    /\ UNCHANGED <<clock, ticks, session_vars, dest, last_writer>>

RECURSIVE buffered(_, _, _)

\* json.dump's loop from piece k on, `buffer` being the stream's buffer
\* with piece k in it: it runs up to the piece that fills the buffer or to
\* the last piece, and gives [chunk, buffer], the next piece and the buffer.
buffered(data, k, buffer) ==
    IF needs_flush(buffer) \/ k = Len(data[2])
    THEN [chunk |-> k + 1, buffer |-> buffer]
    ELSE buffered(data, k + 1, buffer \o json_chunk(data, k + 1))

\* Line 250: json.dump writes its pieces to the stream until the buffer is
\* full, which then goes to the file, or until the last piece.  A failed
\* write raises inside the with block, whose exit closes the stream; the
\* handler then takes the OSError.
Dump(p) ==
    /\ run[p].pc = "L250"
    /\ \E b \in {buffered(run[p].data, run[p].chunk,
                            run[p].buffer \o json_chunk(run[p].data, run[p].chunk))} :
       LET next == IF b.chunk > Len(run[p].data[2]) THEN "L249x" ELSE "L250"
       IN  IF ~needs_flush(b.buffer)
           THEN /\ run' = [run EXCEPT ![p].buffer = b.buffer,
                                      ![p].chunk = b.chunk, ![p].pc = next]
                /\ UNCHANGED <<file, last_writer>>
           ELSE IF dest = "disk_full"
           THEN /\ run' = [run EXCEPT ![p] = write_json_except(@, "OSError")]
                /\ UNCHANGED <<file, last_writer>>
           ELSE /\ file' = [file EXCEPT !.content = pwrite(@, run[p].pos, b.buffer)]
                /\ last_writer' = p
                /\ run' = [run EXCEPT ![p].buffer = "", ![p].chunk = b.chunk,
                                      ![p].pos = @ + Len(b.buffer),
                                      ![p].pc = next]
    /\ UNCHANGED <<clock, ticks, session_vars, dest, opens>>

\* Lines 249-251 and 269-275: the with block ends: the stream is closed,
\* what its buffer holds goes to the file, write_json returns True and
\* main() returns.
Close(p) ==
    /\ run[p].pc = "L249x"
    /\ IF run[p].buffer = ""
       THEN /\ run' = [run EXCEPT ![p] = main_return(@, TRUE)]
            /\ UNCHANGED <<file, last_writer>>
       ELSE IF dest = "disk_full"
       THEN /\ run' = [run EXCEPT ![p] = write_json_except(@, "OSError")]
            /\ UNCHANGED <<file, last_writer>>
       ELSE /\ file' = [file EXCEPT !.content = pwrite(@, run[p].pos, run[p].buffer)]
            /\ last_writer' = p
            /\ run' = [run EXCEPT ![p] =
                         main_return([@ EXCEPT !.buffer = "",
                                               !.pos = @ + Len(run[p].buffer)],
                                     TRUE)]
    /\ UNCHANGED <<clock, ticks, session_vars, dest, opens>>

\* The instants the runs start at: the last tick of 9990-01-02 23:59:58,
\* one tick before the next second, and the last tick of that day, one tick
\* before ten 365-day years no longer end within datetime.max.
MainInstants ==
    {[ord |-> MAXORDINAL - DaysPerYear * ValidityYears,
      sec |-> SecondsPerDay - 2, sub |-> TicksPerSecond - 1],
     [ord |-> MAXORDINAL - DaysPerYear * ValidityYears,
      sec |-> SecondsPerDay - 1, sub |-> TicksPerSecond - 1]}

MainInit ==
    /\ clock \in MainInstants
    /\ ticks = 0
    /\ heap = <<>>
    /\ generators = <<>>
    /\ frame = NoFrame
    /\ outcomes = <<>>
    /\ future_args = <<>>
    /\ encoded = <<>>
    /\ mutations = <<>>
    /\ dest \in Destinations
    /\ file = NoFile
    /\ opens = 0
    /\ run = [p \in Procs |-> InitRun]
    /\ last_writer = 0

MainNext ==
    \/ Tick
    \/ \E p \in Procs : MainCurrentTime(p)
    \/ \E p \in Procs : MainFutureTime(p)
    \/ \E p \in Procs : Open(p)
    \/ \E p \in Procs : Dump(p)
    \/ \E p \in Procs : Close(p)

SpecMain == MainInit /\ [][MainNext]_vars

(***************************************************************************)
(* Properties.                                                             *)
(***************************************************************************)
\* The identifications of result r, and the first of them.
identifications(r) == heap[licenses_of(heap, r)].items

identification(r) == heap[identifications(r)[1]]

provider_of(r) == generators[outcomes[r].gen].time_provider

\* The years future_time was asked for during call r.
years_asked(r) ==
    [k \in {j \in 1..Len(future_args) : future_args[j].call = r} |->
        future_args[k].years]

\* C1: a License generated with a TimeProvider answering the fixed strings
\* S and E holds exactly one identification, with start_date = S,
\* issued_on = S and end_date = E, and future_time was called once, with 10.
C1_FixedProviderDates ==
    \A r \in Results :
        provider_of(r).kind = "fixed" =>
            /\ Len(identifications(r)) = 1
            /\ identification(r).start_date = provider_of(r).now
            /\ identification(r).issued_on = provider_of(r).now
            /\ identification(r).end_date = provider_of(r).future
            /\ Cardinality(DOMAIN years_asked(r)) = 1
            /\ \A k \in DOMAIN years_asked(r) : years_asked(r)[k] = 10

C1_Witness ==
    \E r \in Results :
        /\ provider_of(r).kind = "fixed"
        /\ identification(r).start_date = "1999-12-31 23:59:59"
        /\ identification(r).end_date = "2009-12-28 23:59:59"

ExpectedCodes ==
    <<"HEXX86", "HEXX64", "HEXARM", "HEXARM64", "HEXMIPS", "HEXMIPS64",
      "HEXPPC", "HEXPPC64", "HEXRV64", "HEXARC", "HEXARC64">>

ExpectedIds ==
    <<"48-1337-DEAD-0", "48-1337-DEAD-1", "48-1337-DEAD-2", "48-1337-DEAD-3",
      "48-1337-DEAD-4", "48-1337-DEAD-5", "48-1337-DEAD-6", "48-1337-DEAD-7",
      "48-1337-DEAD-8", "48-1337-DEAD-9", "48-1337-DEAD-10">>

\* C2: after any call of generate_license() the identification has exactly
\* 11 add-ons, the i-th with the i-th catalog code and the id
\* "48-1337-DEAD-" followed by i, counted from 0.
C2_AddOnsCatalog ==
    \A r \in Results :
        LET items == heap[add_ons_of(heap, r)].items
        IN  /\ Len(items) = 11
            /\ \A i \in 0..10 :
                  /\ items[i + 1].code = ExpectedCodes[i + 1]
                  /\ items[i + 1].id = ExpectedIds[i + 1]

C2_Witness ==
    \E r \in Results :
        /\ provider_of(r).kind = "default"
        /\ Len(heap[add_ons_of(heap, r)].items) = 11
        /\ heap[add_ons_of(heap, r)].items[11].id = "48-1337-DEAD-10"

\* C3: in every state of the construction, each add-on present has the
\* identification's id as owner and the identification's start and end
\* dates, and the identification's issued_on is its start_date.
C3_AddOnsMirrorIdentification ==
    \A l \in {a \in 1..Len(heap) : heap[a].kind = "LicenseId"} :
        /\ heap[l].issued_on = heap[l].start_date
        /\ \A k \in 1..Len(heap[heap[l].add_ons].items) :
              LET addon == heap[heap[l].add_ons].items[k]
              IN  /\ addon.owner = heap[l].id
                  /\ addon.start_date = heap[l].start_date
                  /\ addon.end_date = heap[l].end_date

C3_Witness ==
    /\ frame.pc = "L214"
    /\ frame.i = 5
    /\ Len(heap[heap[frame.license_id].add_ons].items) = 5
    /\ heap[frame.license_id].start_date = "2024-02-29 23:59:59"
    /\ heap[frame.license_id].end_date = "2034-02-27 00:00:00"

RECURSIVE After(_, _)

\* The instant n ticks after t.
After(t, n) == IF n = 0 THEN t ELSE After(NextInstant(t), n - 1)

\* C5: in a License built with the default time provider, end_date is
\* exactly 3650 days after start_date, whatever the clock does between the
\* two provider calls.
C5_EndIs3650DaysAfterStart ==
    \A r \in Results :
        provider_of(r).kind = "default" =>
            \E t \in Instants, n \in 0..MaxTicks :
                /\ strftime(After(t, n)) = identification(r).start_date
                /\ strftime([After(t, n) EXCEPT !.ord = @ + 3650])
                      = identification(r).end_date

\* The keys of a dict, in the order it holds them.
Keys(d) == [k \in 1..Len(d[2]) |-> d[2][k][1]]

\* The value a dict holds under its k-th key.
Value(d, k) == d[2][k][2]

\* C6: serialization gives the keys in the declared order at every level,
\* and the elements of licenses and add_ons in the record's order.
C6_DeclaredKeyOrder ==
    \A r \in Results :
        \E d \in {License_to_dict(heap, outcomes[r].license)} :
            /\ Keys(d) = <<"header", "payload", "signature">>
            /\ Keys(Value(d, 2)) = <<"name", "email", "licenses">>
            /\ Len(Value(Value(d, 2), 3)[2]) = Len(identifications(r))
            /\ \A n \in 1..Len(identifications(r)) :
                  \E i \in {Value(Value(d, 2), 3)[2][n]} :
                      /\ Keys(i) = <<"id", "license_type", "product",
                                     "product_id", "edition_id", "seats",
                                     "start_date", "end_date", "issued_on",
                                     "owner", "add_ons", "features">>
                      /\ Value(i, 1)[2] = heap[identifications(r)[n]].id
                      /\ Len(Value(i, 11)[2])
                            = Len(heap[heap[identifications(r)[n]].add_ons].items)
                      /\ \A k \in 1..Len(Value(i, 11)[2]) :
                            /\ Keys(Value(i, 11)[2][k])
                                  = <<"id", "code", "owner", "start_date",
                                      "end_date">>
                            /\ Value(Value(i, 11)[2][k], 1)[2]
                                  = heap[heap[identifications(r)[n]].add_ons].items[k].id

C6_Witness ==
    \E r \in Results :
        /\ Len(encoded[r]) >= 1
        /\ r \notin {mutations[k] : k \in 1..Len(mutations)}
        /\ SubSeq(encoded[r][1], 1, 51)
              = "{\"header\":{\"version\":1},\"payload\":{\"name\":\"0x0060\","

\* C7: the encodings made of one License while it is not changed are
\* identical.
C7_SameEncodingTwice ==
    \A r \in Results :
        \A i, j \in 1..Len(encoded[r]) : encoded[r][i] = encoded[r][j]

C7_Witness ==
    \E r \in Results :
        /\ Len(encoded[r]) = 2
        /\ Len(encoded[r][2]) > 2000

\* The results the caller has changed.
MutatedResults == {mutations[k] : k \in 1..Len(mutations)}

\* The mutable objects of result r.
Objects(r) ==
    {outcomes[r].license, header_of(heap, r), payload_of(heap, r),
     licenses_of(heap, r), add_ons_of(heap, r), features_of(heap, r)}
    \cup {identifications(r)[n] : n \in 1..Len(identifications(r))}

\* C8: every call returns a License with exactly one identification, 11
\* add-ons and no features, none of whose objects belongs to the License of
\* another call; a result the caller did not change stays so when another
\* result is changed.
C8_FreshObjectsPerCall ==
    \A r \in Results :
        /\ r \notin MutatedResults =>
              /\ Len(identifications(r)) = 1
              /\ Len(heap[add_ons_of(heap, r)].items) = 11
              /\ heap[features_of(heap, r)].items = <<>>
              /\ heap[header_of(heap, r)].entries = << <<"version", <<"int", 1>> >> >>
              /\ heap[payload_of(heap, r)].name = "0x0060"
        /\ Cardinality(Objects(r)) = 7
        /\ \A q \in Results : q # r => Objects(q) \cap Objects(r) = {}

C8_Witness ==
    \E r, q \in Results :
        /\ r # q
        /\ outcomes[r].gen = outcomes[q].gen
        /\ q \in MutatedResults
        /\ r \notin MutatedResults
        /\ Len(heap[add_ons_of(heap, q)].items) = 10
        /\ Len(encoded[r]) = 2

\* C4: write_json raises nothing to main(); on a destination that cannot
\* be opened or written it returns False and main() returns 1 without the
\* success message; on a writable one it returns True and main() returns 0;
\* main() returns 0 exactly when write_json returned True.
C4_WriteFailureIsExitCode ==
    \A p \in Procs :
        /\ run[p].raised \notin {"OSError", "PermissionError"}
        /\ run[p].pc = "done" =>
              /\ run[p].exit \in {0, 1}
              /\ run[p].exit = 0 <=> run[p].success
              /\ dest # "writable" =>
                    /\ ~run[p].success
                    /\ run[p].exit = 1
                    /\ run[p].stdout = <<>>
                    /\ Len(run[p].stderr) = 1
              /\ dest = "writable" => run[p].success /\ run[p].exit = 0

C4_Witness ==
    \E p \in Procs :
        /\ dest = "disk_full"
        /\ run[p].pc = "done"
        /\ run[p].exit = 1
        /\ file = [exists |-> TRUE, content |-> ""]

C10_LastWriterWins ==
    ((\A p \in Procs : run[p].pc \in {"done", "raised"}) /\ last_writer # 0) =>
        file = [exists |-> TRUE,
                content |-> json_encode(run[last_writer].data)]

C10_Witness ==
    /\ \A p \in Procs : run[p].pc = "done" /\ run[p].exit = 0
    /\ last_writer # 0
    /\ \E q \in Procs :
          /\ q # last_writer
          /\ run[q].open_seq > run[last_writer].open_seq
          /\ run[q].start_date # run[last_writer].start_date
    /\ Len(file.content) > 2000

====
